---- MODULE Spec2Model ----
\* Model of SaleEstimateService (src/unnamed/part_002, lines 159-384): the
\* tenant-scoped create / edit / delete / get lifecycle of sale estimates and
\* their item entries.  Every `await` of a service method is one step of the
\* request that runs it, so the states between two storage calls are states
\* of the model.
EXTENDS Integers, Sequences, FiniteSets, TLC

\* ---------------------------------------------------------------- bounds
\* Largest auto-increment id the sale-estimates table of a tenant hands out.
MaxDocId == 2
\* Largest auto-increment id the items-entries table of a tenant hands out.
MaxEntryId == 3
\* Longest entries list of a DTO.
MaxEntries == 2
\* The pages a list request asks for are 1..MaxPage, of 1..MaxPageSize rows.
MaxPage == 3
MaxPageSize == 2
\* The estimates tables a list request is checked over hold ids in
\* 1..MaxListDocs.
MaxListDocs == 4

\* ------------------------------------------------------------- constants
SALE_ESTIMATE_NOT_FOUND == "SALE_ESTIMATE_NOT_FOUND"
CUSTOMER_NOT_FOUND == "CUSTOMER_NOT_FOUND"
SALE_ESTIMATE_NUMBER_EXISTANCE == "SALE_ESTIMATE_NUMBER_EXISTANCE"
ITEMS_IDS_NOT_EXISTS == "ITEMS_IDS_NOT_EXISTS"
\* Errors thrown by the collaborators the service awaits.
NOT_SELLABLE_ITEMS == "NOT_SELLABLE_ITEMS"
ENTRIES_IDS_NOT_FOUND == "ENTRIES_IDS_NOT_FOUND"
\* A rejected storage call and a throwing event dispatch propagate unwrapped.
STORAGE_ERROR == "STORAGE_ERROR"
DISPATCH_ERROR == "DISPATCH_ERROR"
UPSERT_ERROR == "UPSERT_ERROR"

\* The reference type createEstimate / editEstimate stamp on entries and
\* deleteEstimate filters on.
SaleEstimateType == "SaleEstimate"
\* The reference type editEstimate hands to validateEntriesIdsExistance.
EditEntriesGateType == "SaleEstiamte"
\* Another document type sharing the items-entries table.
SaleInvoiceType == "SaleInvoice"

\* ------------------------------------------------------------ the tenants
Tenants == {1, 2}
\* The requests that can be running at once.
Slots == {"a", "b"}

\* Customers and items of a tenant; the service never writes them.
Customers(t) == {1}
Items(t) == {1, 2}
Sellable(t) == {1}

\* What a client may send.
EstimateNumbers == {"E1", "E2"}
CustomerIds == {1, 2}
ItemIds == {1, 2, 3}
Quantities == {1, 2}
Rates == {3}
Totals == {7}
\* The entry ids a client may name (0: none).
EntryIdInputs == {0, 1, 2}

VARIABLES
  docs,         \* docs[t]: the rows of tenant t's sale-estimates table
  entries,      \* entries[t]: the rows of tenant t's items-entries table
  nextDocId,    \* nextDocId[t]: next auto-increment id of the estimates table
  nextEntryId,  \* nextEntryId[t]: next auto-increment id of the entries table
  req,          \* req[s]: the request running in slot s
  bills         \* the web client's fetchBillsTable call and what it dispatched

vars == <<docs, entries, nextDocId, nextEntryId, req, bills>>

\* ------------------------------------------------------------ data shapes
NoDTO == [estimateNumber |-> "", customerId |-> 0, entries |-> <<>>]
EmptyStore == [docs |-> [t \in Tenants |-> {}], entries |-> [t \in Tenants |-> {}]]

Range(q) == {q[i] : i \in 1..Len(q)}

\* An entry of a DTO: id = 0 stands for "no id given".  An entry that names
\* a stored entry (id # 0) is otherwise a plain one.
EntryDTOs ==
  {e \in [id : EntryIdInputs, itemId : ItemIds, quantity : Quantities,
          rate : Rates, total : Totals] :
     /\ (e.id # 0 => e.itemId \in Sellable(1) /\ e.quantity = 1)
     /\ (e.itemId \notin Sellable(1) => e.quantity = 1)}

\* The plain entry the longer entries lists are filled up with.
PlainEntry == [id |-> 0, itemId |-> 1, quantity |-> 2, rate |-> 3, total |-> 7]

RECURSIVE Plain(_)
Plain(n) == IF n = 0 THEN <<>> ELSE <<PlainEntry>> \o Plain(n - 1)

\* Two different entries whose items cannot be sold (one not stored, one not
\* sellable), in both orders.
FaultyPairs ==
  LET faulty == {e \in EntryDTOs : e.id = 0 /\ e.itemId \notin Sellable(1)}
  IN IF MaxEntries >= 2
     THEN {<<e, f>> : e \in faulty, f \in faulty} \ {<<e, e>> : e \in faulty}
     ELSE {}

\* The entries lists a client sends: none, or any entry followed by plain
\* ones, up to MaxEntries entries, or a faulty pair.
EntriesLists ==
  {<<>>} \cup {<<e>> \o Plain(n) : e \in EntryDTOs, n \in 0..(MaxEntries - 1)}
    \cup FaultyPairs

DTOs ==
  [estimateNumber : EstimateNumbers, customerId : CustomerIds,
   entries : EntriesLists]

\* ------------------------------------------------------- pure operations
\* ItemEntry.calcAmount: the amount of an entry from its quantity and rate.
calcAmount(e) == e.quantity * e.rate

\* Mutant of EstimateAmount: the client's totals are summed.
RECURSIVE EstimateAmountOfTotals(_)
EstimateAmountOfTotals(es) ==
  IF es = <<>> THEN 0 ELSE Head(es).total + EstimateAmountOfTotals(Tail(es))

\* sumBy(estimateDTO.entries, e => ItemEntry.calcAmount(e))
RECURSIVE EstimateAmount(_)
EstimateAmount(es) ==
  IF es = <<>> THEN 0 ELSE calcAmount(Head(es)) + EstimateAmount(Tail(es))

\* SaleEstimate.query().findById(id), as the set of rows found (none or one).
findById(tbl, id) == {d \in tbl : d.id = id}

\* The rows ItemEntry.query().where('reference_id', id)
\*   .where('reference_type', 'SaleEstimate') selects.
EstimateEntries(tbl, id) ==
  {e \in tbl : e.reference_id = id /\ e.reference_type = SaleEstimateType}

\* Mutant of validateEstimateNumberExistance: the found row is not checked.
validateEstimateNumberNeverThrows(tbl, estimateNumber, notEstimateId) == FALSE

\* Mutant of validateEstimateNumberExistance: notEstimateId is not excluded.
validateEstimateNumberNoExclusion(tbl, estimateNumber, notEstimateId) ==
  \E d \in tbl : d.estimate_number = estimateNumber

\* validateEstimateNumberExistance: TRUE when it throws.  notEstimateId = 0
\* is the absent (falsy) argument.
validateEstimateNumberExistance(tbl, estimateNumber, notEstimateId) ==
  \E d \in tbl :
    /\ d.estimate_number = estimateNumber
    /\ (notEstimateId # 0 => d.id # notEstimateId)

\* customersService.getCustomer: TRUE when it throws.
getCustomerThrows(t, customerId) == customerId \notin Customers(t)

\* itemsEntriesService.validateItemsIdsExistance: the ids not found.
ItemsIdsNotFound(t, es) == {e.itemId : e \in Range(es)} \ Items(t)

\* itemsEntriesService.validateNonSellableEntriesItems: the stored items of
\* the entries that are not sellable.
NonSellableItems(t, es) ==
  ({e.itemId : e \in Range(es)} \cap Items(t)) \ Sellable(t)

\* itemsEntriesService.validateEntriesIdsExistance: the entry ids of the DTO
\* that are not ids of stored entries of (referenceId, referenceType).
EntriesIdsNotFound(tbl, referenceId, referenceType, es) ==
  {e.id : e \in {x \in Range(es) : x.id # 0}}
    \ {e.id : e \in {x \in tbl : x.reference_id = referenceId
                                  /\ x.reference_type = referenceType}}

\* Mutant of CreateGraphEntries: the client's entry id is kept.
CreateGraphEntriesKeepingId(es) ==
  [i \in 1..Len(es) |->
     [id |-> es[i].id, reference_type |-> "SaleEstimate",
      item_id |-> es[i].itemId, quantity |-> es[i].quantity,
      rate |-> es[i].rate]]

\* entries: estimateObj.entries.map(entry => ({ reference_type: 'SaleEstimate',
\*   ...omit(entry, ['total', 'amount', 'id']) }))
CreateGraphEntries(es) ==
  [i \in 1..Len(es) |->
     [id |-> 0, reference_type |-> SaleEstimateType, item_id |-> es[i].itemId,
      quantity |-> es[i].quantity, rate |-> es[i].rate]]

\* entries: estimateObj.entries.map(entry => ({ reference_type: 'SaleEstimate',
\*   ...omit(entry, ['total', 'amount']) }))
EditGraphEntries(es) ==
  [i \in 1..Len(es) |->
     [id |-> es[i].id, reference_type |-> SaleEstimateType,
      item_id |-> es[i].itemId, quantity |-> es[i].quantity,
      rate |-> es[i].rate]]

\* Number of graph entries among the first i that carry no id (they are
\* inserted, in order, under fresh ids).
RECURSIVE InsertsBefore(_, _)
InsertsBefore(g, i) ==
  IF i = 0 THEN 0
  ELSE InsertsBefore(g, i - 1) + (IF g[i].id = 0 THEN 1 ELSE 0)

\* The entry rows a graph leaves related to document docId: an entry with an
\* id keeps it, an entry without one gets the next auto-increment id.
GraphRows(g, docId, base) ==
  {[id |-> IF g[i].id = 0 THEN base + InsertsBefore(g, i) - 1 ELSE g[i].id,
    reference_id |-> docId, reference_type |-> g[i].reference_type,
    item_id |-> g[i].item_id, quantity |-> g[i].quantity, rate |-> g[i].rate]
     : i \in 1..Len(g)}

\* Mutant of upsertGraphAndFetch: related entries missing from the graph are
\* kept (an insert-or-update without the delete).
upsertGraphKeepingMissing(docTbl, entryTbl, docNext, entryNext, rootId, fields, g) ==
  LET docId == IF rootId = 0 THEN docNext ELSE rootId
      row == [id |-> docId, estimate_number |-> fields.estimate_number,
              customer_id |-> fields.customer_id, amount |-> fields.amount]
      rows == GraphRows(g, docId, entryNext)
  IN [ok |-> TRUE,
      docs |-> (docTbl \ findById(docTbl, docId)) \cup {row},
      entries |-> {e \in entryTbl : e.id \notin {x.id : x \in rows}} \cup rows,
      docNext |-> IF rootId = 0 THEN docNext + 1 ELSE docNext,
      entryNext |-> entryNext + InsertsBefore(g, Len(g)),
      fetched |-> {[doc |-> row, entries |-> rows]}]

\* upsertGraphAndFetch of a graph: rootId = 0 inserts the document, otherwise
\* the document rootId is updated; related entries missing from the graph
\* are deleted, entries with an id are updated, the others inserted.  The
\* result is the new tables, the new counters and the fetched graph; ok is
\* FALSE (nothing written) when the root or an entry id is not found.
upsertGraphAndFetch(docTbl, entryTbl, docNext, entryNext, rootId, fields, g) ==
  LET docId == IF rootId = 0 THEN docNext ELSE rootId
      related == EstimateEntries(entryTbl, docId)
      known == {e.id : e \in related}
      given == {g[i].id : i \in {j \in 1..Len(g) : g[j].id # 0}}
      row == [id |-> docId, estimate_number |-> fields.estimate_number,
              customer_id |-> fields.customer_id, amount |-> fields.amount]
      rows == GraphRows(g, docId, entryNext)
      ok == /\ (rootId # 0 => findById(docTbl, rootId) # {})
            /\ given \subseteq known
  IN IF ok
     THEN [ok |-> TRUE,
           docs |-> (docTbl \ findById(docTbl, docId)) \cup {row},
           entries |-> (entryTbl \ related) \cup rows,
           docNext |-> IF rootId = 0 THEN docNext + 1 ELSE docNext,
           entryNext |-> entryNext + InsertsBefore(g, Len(g)),
           fetched |-> {[doc |-> row, entries |-> rows]}]
     ELSE [ok |-> FALSE, docs |-> docTbl, entries |-> entryTbl,
           docNext |-> docNext, entryNext |-> entryNext, fetched |-> {}]

\* getEstimate: the estimate with its entries, or the error it throws.
getEstimate(docTbl, entryTbl, id) ==
  LET found == findById(docTbl, id)
  IN IF found = {}
     THEN [error |-> SALE_ESTIMATE_NOT_FOUND, estimate |-> {}]
     ELSE [error |-> "",
           estimate |-> {[doc |-> d, entries |-> EstimateEntries(entryTbl, id)]
                           : d \in found}]

\* ------------------------------------------------------------ estimatesList
NoFilter == [page |-> 0, pageSize |-> 0]
NoPagination == [total |-> 0, page |-> 0, pageSize |-> 0]

\* The rows of a table in the order the list query returns them: by id.
RECURSIVE SortedById(_)
SortedById(tbl) ==
  IF tbl = {}
  THEN <<>>
  ELSE LET d == CHOOSE x \in tbl : \A y \in tbl : x.id <= y.id
       IN <<d>> \o SortedById(tbl \ {d})

\* The query builder's page(index, size): the rows from offset index * size,
\* at most size of them, and the number of all rows.
page(rows, index, size) ==
  LET from == index * size + 1
      last == from + size - 1
      to == IF last < Len(rows) THEN last ELSE Len(rows)
  IN [results |-> IF from > to THEN <<>> ELSE SubSeq(rows, from, to),
      total |-> Len(rows)]

\* The query builder's pagination(index, size): page(index, size), with the
\* metadata reported one-based.
pagination(rows, index, size) ==
  LET p == page(rows, index, size)
  IN [results |-> p.results,
      pagination |-> [total |-> p.total, page |-> index + 1, pageSize |-> size]]

\* Mutant of ListInternalPage: the interface page is passed on as it is.
ListInternalPageSame(p) == p

\* estimatesFilter.page - 1
ListInternalPage(p) == p - 1

\* estimatesList: the tenant's estimates with their entries, one page of them.
estimatesList(docTbl, entryTbl, filter) ==
  LET rows == SortedById(docTbl)
      graph == [i \in 1..Len(rows) |->
                  [doc |-> rows[i],
                   entries |-> EstimateEntries(entryTbl, rows[i].id)]]
  IN pagination(graph, ListInternalPage(filter.page), filter.pageSize)

\* ------------------------------------------------------ lifecycle events
NoEvent == {}
\* dispatch(events.saleEstimates.onCreated)
CreatedEvent(tenantId, saleEstimate) ==
  [name |-> "onCreated", payload |-> {}]
\* dispatch(onEdited, { tenantId, estimateId, saleEstimate, oldSaleEstimate })
EditedEvent(tenantId, estimateId, saleEstimate, oldSaleEstimate) ==
  [name |-> "onEdited",
   payload |-> {[tenantId |-> tenantId, estimateId |-> estimateId,
                 saleEstimate |-> saleEstimate,
                 oldSaleEstimate |-> oldSaleEstimate]}]
\* dispatch(onDeleted, { tenantId, saleEstimateId, oldSaleEstimate })
DeletedEvent(tenantId, estimateId, oldSaleEstimate) ==
  [name |-> "onDeleted",
   payload |-> {[tenantId |-> tenantId, estimateId |-> estimateId,
                 saleEstimate |-> {},
                 oldSaleEstimate |-> oldSaleEstimate]}]

\* --------------------------------------------------------- fetchBillsTable
\* The action types of the bills store.
BILLS_TABLE_LOADING == "BILLS_TABLE_LOADING"
BILLS_PAGE_SET == "BILLS_PAGE_SET"
BILLS_ITEMS_SET == "BILLS_ITEMS_SET"
BILLS_PAGINATION_SET == "BILLS_PAGINATION_SET"

\* A table query; 0 stands for a key that is not given.
TableQueries == [page : 1..2, pageSize : {10, 20}]
Queries == [page : 0..2, pageSize : {0}]
\* What the API answers: a page of bills, its pagination, the custom view.
BillIds == {1, 2, 3}
Responses ==
  [results : SUBSET BillIds, pagination : {[total |-> 3]},
   customViewId : {0, 7}]

\* { ...pageQuery, ...query }
MergeParams(pageQuery, query) ==
  [page |-> IF query.page # 0 THEN query.page ELSE pageQuery.page,
   pageSize |-> IF query.pageSize # 0 THEN query.pageSize ELSE pageQuery.pageSize]

\* response.data.customViewId || -1
CustomViewIdOr(customViewId) == IF customViewId = 0 THEN -1 ELSE customViewId

NoResponse == [results |-> {}, pagination |-> [total |-> 0], customViewId |-> 0]
NoParams == [page |-> 0, pageSize |-> 0]
IdleBills ==
  [pc |-> "idle", pageQuery |-> NoParams, query |-> NoParams,
   params |-> NoParams, dispatched |-> <<>>, settled |-> "",
   response |-> NoResponse]

\* The action that sets the loading flag of the bills table.
TableLoading(loading) ==
  [type |-> BILLS_TABLE_LOADING, payload |-> [loading |-> loading]]

\* The four actions dispatched when the API has answered.
ThenDispatches(response) ==
  << [type |-> BILLS_PAGE_SET,
      payload |-> [bills |-> response.results,
                   pagination |-> response.pagination,
                   customViewId |-> CustomViewIdOr(response.customViewId)]],
     [type |-> BILLS_ITEMS_SET, payload |-> [bills |-> response.results]],
     [type |-> BILLS_PAGINATION_SET,
      payload |-> [pagination |-> response.pagination,
                   customViewId |-> CustomViewIdOr(response.customViewId)]],
     TableLoading(FALSE) >>

ServiceUnchanged == UNCHANGED <<docs, entries, nextDocId, nextEntryId, req>>

\* fetchBillsTable({ query }) is called: loading is dispatched, the API
\* request is sent.
FetchBillsCall ==
  /\ bills.pc = "idle"
  /\ \E pageQuery \in TableQueries, query \in Queries :
       bills' = [IdleBills EXCEPT !.pc = "pending",
                   !.pageQuery = pageQuery, !.query = query,
                   !.params = MergeParams(pageQuery, query),
                   !.dispatched = <<TableLoading(TRUE)>>]
  /\ ServiceUnchanged

\* .then: the API has answered.
ApiResolves ==
  /\ bills.pc = "pending"
  /\ \E response \in Responses :
       bills' = [bills EXCEPT !.pc = "settled",
                   !.dispatched = @ \o ThenDispatches(response),
                   !.settled = "resolved", !.response = response]
  /\ ServiceUnchanged

\* .catch: the API request has failed.
ApiRejects ==
  /\ bills.pc = "pending"
  /\ bills' = [bills EXCEPT !.pc = "settled", !.settled = "rejected"]
  /\ ServiceUnchanged

\* The caller has the settled promise; fetchBillsTable may be called again.
BillsReturn ==
  /\ bills.pc = "settled"
  /\ bills' = IdleBills
  /\ ServiceUnchanged

\* --------------------------------------------------------------- requests
IdleReq ==
  [op |-> "none", pc |-> "idle", tenantId |-> 0, estimateId |-> 0,
   dto |-> NoDTO, amount |-> 0, old |-> {}, removed |-> {}, result |-> "",
   returned |-> {}, event |-> NoEvent, pre |-> EmptyStore,
   filter |-> NoFilter, list |-> <<>>, pagination |-> NoPagination]

\* The stored rows the model starts from.  The items-entries table is shared
\* by every document type: in tenant 1 an invoice owns entry 1.  Tenant 2 is an
\* older tenant: it holds estimate 1 with one entry, and its two tables have
\* handed out every id up to MaxDocId and MaxEntryId.
InitDocs ==
  [t \in Tenants |->
     IF t = 2
     THEN {[id |-> 1, estimate_number |-> "E1", customer_id |-> 1, amount |-> 3]}
     ELSE {}]
InitEntries ==
  [t \in Tenants |->
     IF t = 1
     THEN {[id |-> 1, reference_id |-> 1, reference_type |-> SaleInvoiceType,
            item_id |-> 1, quantity |-> 1, rate |-> 3]}
     ELSE {[id |-> 1, reference_id |-> 1, reference_type |-> SaleEstimateType,
            item_id |-> 1, quantity |-> 1, rate |-> 3]}]

Init ==
  /\ docs = InitDocs
  /\ entries = InitEntries
  /\ nextDocId = [t \in Tenants |-> IF t = 2 THEN MaxDocId + 1 ELSE 1]
  /\ nextEntryId = [t \in Tenants |-> IF t = 2 THEN MaxEntryId + 1 ELSE 2]
  /\ req = [s \in Slots |-> IdleReq]
  /\ bills = IdleBills

Free(s) == req[s].pc = "idle"
Store == [docs |-> docs, entries |-> entries]
StoreUnchanged == UNCHANGED <<docs, entries, nextDocId, nextEntryId>>

\* The request of slot s moves to step pc.
Goto(s, pc) == req' = [req EXCEPT ![s].pc = pc]
\* The request of slot s ends by throwing err to its caller.
Throw(s, err) ==
  req' = [req EXCEPT ![s].pc = "done", ![s].result = err, ![s].returned = {}]

\* Mutant of CreateAfter: the graph is written before the item gates.
CreateAfterWriteFirst(pc) ==
  CASE pc = "c_number" -> "c_customer"
    [] pc = "c_customer" -> "c_write"
    [] pc = "c_write" -> "c_items"
    [] pc = "c_items" -> "c_sellable"
    [] pc = "c_sellable" -> "c_dispatch"
    [] OTHER -> "done"

\* Mutant of CreateAfter: the event is dispatched in place of the write.
CreateAfterDispatchFirst(pc) ==
  CASE pc = "c_number" -> "c_customer"
    [] pc = "c_customer" -> "c_items"
    [] pc = "c_items" -> "c_sellable"
    [] pc = "c_sellable" -> "c_dispatch"
    [] OTHER -> "done"

\* Mutant of CreateAfter: the sellable gate runs before the item gate.
CreateAfterSellableFirst(pc) ==
  CASE pc = "c_number" -> "c_customer"
    [] pc = "c_customer" -> "c_sellable"
    [] pc = "c_sellable" -> "c_items"
    [] pc = "c_items" -> "c_write"
    [] pc = "c_write" -> "c_dispatch"
    [] OTHER -> "done"

\* The order of the awaited steps of createEstimate.
CreateAfter(pc) ==
  CASE pc = "c_number" -> "c_customer"
    [] pc = "c_customer" -> "c_items"
    [] pc = "c_items" -> "c_sellable"
    [] pc = "c_sellable" -> "c_write"
    [] pc = "c_write" -> "c_dispatch"
    [] OTHER -> "done"

\* The order of the awaited steps of editEstimate.
EditAfter(pc) ==
  CASE pc = "e_load" -> "e_number"
    [] pc = "e_number" -> "e_customer"
    [] pc = "e_customer" -> "e_entries"
    [] pc = "e_entries" -> "e_items"
    [] pc = "e_items" -> "e_sellable"
    [] pc = "e_sellable" -> "e_write"
    [] pc = "e_write" -> "e_dispatch"
    [] OTHER -> "done"

\* The order of the awaited steps of deleteEstimate.
DeleteAfter(pc) ==
  CASE pc = "d_load" -> "d_entries"
    [] pc = "d_entries" -> "d_document"
    [] pc = "d_document" -> "d_dispatch"
    [] OTHER -> "done"

\* ---------------------------------------------------------- createEstimate
\* The call: amount is computed before the first await.
\* createEstimate(t, dto) is called in slot s, t and dto from the given sets.
CreateCallOf(s, tenants, dtos) ==
  /\ Free(s)
  /\ \E t \in tenants, dto \in dtos :
       /\ nextDocId[t] <= MaxDocId
       /\ nextEntryId[t] + Len(dto.entries) - 1 <= MaxEntryId
       /\ req' = [req EXCEPT ![s] =
            [IdleReq EXCEPT !.op = "create", !.pc = "c_number",
               !.tenantId = t, !.dto = dto,
               !.amount = EstimateAmount(dto.entries), !.pre = Store]]
  /\ StoreUnchanged

CreateCall(s) == CreateCallOf(s, Tenants, DTOs)

CreateValidateNumber(s) ==
  LET r == req[s] IN
  /\ r.pc = "c_number"
  /\ IF validateEstimateNumberExistance(docs[r.tenantId], r.dto.estimateNumber, 0)
     THEN Throw(s, SALE_ESTIMATE_NUMBER_EXISTANCE)
     ELSE Goto(s, CreateAfter("c_number"))
  /\ StoreUnchanged

CreateGetCustomer(s) ==
  LET r == req[s] IN
  /\ r.pc = "c_customer"
  /\ IF getCustomerThrows(r.tenantId, r.dto.customerId)
     THEN Throw(s, CUSTOMER_NOT_FOUND)
     ELSE Goto(s, CreateAfter("c_customer"))
  /\ StoreUnchanged

CreateValidateItems(s) ==
  LET r == req[s] IN
  /\ r.pc = "c_items"
  /\ IF ItemsIdsNotFound(r.tenantId, r.dto.entries) # {}
     THEN Throw(s, ITEMS_IDS_NOT_EXISTS)
     ELSE Goto(s, CreateAfter("c_items"))
  /\ StoreUnchanged

CreateValidateSellable(s) ==
  LET r == req[s] IN
  /\ r.pc = "c_sellable"
  /\ IF NonSellableItems(r.tenantId, r.dto.entries) # {}
     THEN Throw(s, NOT_SELLABLE_ITEMS)
     ELSE Goto(s, CreateAfter("c_sellable"))
  /\ StoreUnchanged

\* What the upsert of request r does to tenant r.tenantId.
Upsert(r, rootId, g) ==
  upsertGraphAndFetch(docs[r.tenantId], entries[r.tenantId],
    nextDocId[r.tenantId], nextEntryId[r.tenantId], rootId,
    [estimate_number |-> r.dto.estimateNumber,
     customer_id |-> r.dto.customerId, amount |-> r.amount], g)

\* The upsert of slot s is applied; the request goes on to next, or throws.
ApplyUpsert(s, u, next) ==
  LET t == req[s].tenantId IN
  /\ u.entryNext - 1 <= MaxEntryId
  /\ u.docNext - 1 <= MaxDocId
  /\ docs' = [docs EXCEPT ![t] = u.docs]
  /\ entries' = [entries EXCEPT ![t] = u.entries]
  /\ nextDocId' = [nextDocId EXCEPT ![t] = u.docNext]
  /\ nextEntryId' = [nextEntryId EXCEPT ![t] = u.entryNext]
  /\ IF u.ok
     THEN req' = [req EXCEPT ![s].pc = next, ![s].returned = u.fetched]
     ELSE Throw(s, UPSERT_ERROR)

CreateWrite(s) ==
  LET r == req[s] IN
  /\ r.pc = "c_write"
  /\ ApplyUpsert(s, Upsert(r, 0, CreateGraphEntries(r.dto.entries)),
                 CreateAfter("c_write"))

\* The dispatch is awaited: when it throws, so does the operation.
Dispatch(s, event) ==
  /\ \E delivered \in BOOLEAN :
       req' = [req EXCEPT
                 ![s].pc = "done",
                 ![s].event = {event},
                 ![s].result = IF delivered THEN "ok" ELSE DISPATCH_ERROR,
                 ![s].returned = IF delivered THEN @ ELSE {}]
  /\ StoreUnchanged

CreateDispatch(s) ==
  LET r == req[s] IN
  /\ r.pc = "c_dispatch"
  /\ Dispatch(s, CreatedEvent(r.tenantId, r.returned))

\* getSaleEstimateOrThrowError: the row found, or none when it throws.
getSaleEstimateOrThrowError(tbl, saleEstimateId) == findById(tbl, saleEstimateId)

\* ------------------------------------------------------------ editEstimate
\* editEstimate(t, id, dto) is called in slot s, t and dto from the given
\* sets.
EditCallOf(s, tenants, dtos) ==
  /\ Free(s)
  /\ \E t \in tenants, id \in 1..MaxDocId, dto \in dtos :
       /\ nextEntryId[t] + Cardinality({i \in 1..Len(dto.entries) :
                                          dto.entries[i].id = 0}) - 1 <= MaxEntryId
       /\ req' = [req EXCEPT ![s] =
            [IdleReq EXCEPT !.op = "edit", !.pc = "e_load", !.tenantId = t,
               !.estimateId = id, !.dto = dto, !.pre = Store]]
  /\ StoreUnchanged

EditCall(s) == EditCallOf(s, Tenants, DTOs)

\* oldSaleEstimate is loaded, then amount is computed before the next await.
EditLoad(s) ==
  LET r == req[s]
      found == getSaleEstimateOrThrowError(docs[r.tenantId], r.estimateId)
  IN
  /\ r.pc = "e_load"
  /\ IF found = {}
     THEN Throw(s, SALE_ESTIMATE_NOT_FOUND)
     ELSE req' = [req EXCEPT ![s].pc = EditAfter("e_load"), ![s].old = found,
                             ![s].amount = EstimateAmount(r.dto.entries)]
  /\ StoreUnchanged

EditValidateNumber(s) ==
  LET r == req[s] IN
  /\ r.pc = "e_number"
  /\ IF validateEstimateNumberExistance(docs[r.tenantId],
                                        r.dto.estimateNumber, r.estimateId)
     THEN Throw(s, SALE_ESTIMATE_NUMBER_EXISTANCE)
     ELSE Goto(s, EditAfter("e_number"))
  /\ StoreUnchanged

EditGetCustomer(s) ==
  LET r == req[s] IN
  /\ r.pc = "e_customer"
  /\ IF getCustomerThrows(r.tenantId, r.dto.customerId)
     THEN Throw(s, CUSTOMER_NOT_FOUND)
     ELSE Goto(s, EditAfter("e_customer"))
  /\ StoreUnchanged

EditValidateEntries(s) ==
  LET r == req[s] IN
  /\ r.pc = "e_entries"
  /\ IF EntriesIdsNotFound(entries[r.tenantId], r.estimateId,
                           EditEntriesGateType, r.dto.entries) # {}
     THEN Throw(s, ENTRIES_IDS_NOT_FOUND)
     ELSE Goto(s, EditAfter("e_entries"))
  /\ StoreUnchanged

EditValidateItems(s) ==
  LET r == req[s] IN
  /\ r.pc = "e_items"
  /\ IF ItemsIdsNotFound(r.tenantId, r.dto.entries) # {}
     THEN Throw(s, ITEMS_IDS_NOT_EXISTS)
     ELSE Goto(s, EditAfter("e_items"))
  /\ StoreUnchanged

EditValidateSellable(s) ==
  LET r == req[s] IN
  /\ r.pc = "e_sellable"
  /\ IF NonSellableItems(r.tenantId, r.dto.entries) # {}
     THEN Throw(s, NOT_SELLABLE_ITEMS)
     ELSE Goto(s, EditAfter("e_sellable"))
  /\ StoreUnchanged

EditWrite(s) ==
  LET r == req[s] IN
  /\ r.pc = "e_write"
  /\ ApplyUpsert(s, Upsert(r, r.estimateId, EditGraphEntries(r.dto.entries)),
                 EditAfter("e_write"))

EditDispatch(s) ==
  LET r == req[s] IN
  /\ r.pc = "e_dispatch"
  /\ Dispatch(s, EditedEvent(r.tenantId, r.estimateId,
                             {g.doc : g \in r.returned}, r.old))

\* ---------------------------------------------------------- deleteEstimate
DeleteCall(s) ==
  /\ Free(s)
  /\ \E t \in Tenants, id \in 1..MaxDocId :
       req' = [req EXCEPT ![s] =
         [IdleReq EXCEPT !.op = "delete", !.pc = "d_load", !.tenantId = t,
            !.estimateId = id, !.pre = Store]]
  /\ StoreUnchanged

\* Mutant of DeleteLoad: the estimate found is not checked.
DeleteLoadUnchecked(s) ==
  LET r == req[s] IN
  /\ r.pc = "d_load"
  /\ req' = [req EXCEPT ![s].pc = "d_entries",
               ![s].old = findById(docs[r.tenantId], r.estimateId)]
  /\ StoreUnchanged

DeleteLoad(s) ==
  LET r == req[s]
      found == getSaleEstimateOrThrowError(docs[r.tenantId], r.estimateId)
  IN
  /\ r.pc = "d_load"
  /\ IF found = {}
     THEN Throw(s, SALE_ESTIMATE_NOT_FOUND)
     ELSE req' = [req EXCEPT ![s].pc = DeleteAfter("d_load"), ![s].old = found]
  /\ StoreUnchanged

\* Mutant of DeleteEntries: the entries are left in place.
DeleteEntriesSkipped(s) ==
  /\ req[s].pc = "d_entries"
  /\ Goto(s, "d_document")
  /\ StoreUnchanged

\* ItemEntry.query().where('reference_id', estimateId)
\*   .where('reference_type', 'SaleEstimate').delete(), or the call rejects.
DeleteEntries(s) ==
  LET r == req[s]
      t == r.tenantId
      gone == EstimateEntries(entries[t], r.estimateId)
  IN
  /\ r.pc = "d_entries"
  /\ \/ /\ entries' = [entries EXCEPT ![t] = @ \ gone]
        /\ req' = [req EXCEPT ![s].pc = DeleteAfter("d_entries"),
                              ![s].removed = gone]
     \/ /\ Throw(s, STORAGE_ERROR)
        /\ UNCHANGED entries
  /\ UNCHANGED <<docs, nextDocId, nextEntryId>>

\* SaleEstimate.query().where('id', estimateId).delete(), or the call rejects.
DeleteDocument(s) ==
  LET r == req[s]
      t == r.tenantId
  IN
  /\ r.pc = "d_document"
  /\ \/ /\ docs' = [docs EXCEPT ![t] = @ \ findById(@, r.estimateId)]
        /\ Goto(s, DeleteAfter("d_document"))
     \/ /\ Throw(s, STORAGE_ERROR)
        /\ UNCHANGED docs
  /\ UNCHANGED <<entries, nextDocId, nextEntryId>>

DeleteDispatch(s) ==
  LET r == req[s] IN
  /\ r.pc = "d_dispatch"
  /\ Dispatch(s, DeletedEvent(r.tenantId, r.estimateId, r.old))

\* ------------------------------------------------------------- getEstimate
GetCall(s) ==
  /\ Free(s)
  /\ \E t \in Tenants, id \in 1..MaxDocId :
       req' = [req EXCEPT ![s] =
         [IdleReq EXCEPT !.op = "get", !.pc = "g_load", !.tenantId = t,
            !.estimateId = id, !.pre = Store]]
  /\ StoreUnchanged

GetLoad(s) ==
  LET r == req[s]
      got == getEstimate(docs[r.tenantId], entries[r.tenantId], r.estimateId)
  IN
  /\ r.pc = "g_load"
  /\ req' = [req EXCEPT ![s].pc = "done",
                        ![s].result = IF got.error = "" THEN "ok" ELSE got.error,
                        ![s].returned = got.estimate]
  /\ StoreUnchanged

\* ------------------------------------------------------------ estimatesList
\* estimatesList(t, filter) is called in slot s, the filter's page and
\* pageSize from the given sets.
ListCallOf(s, pages, sizes) ==
  /\ Free(s)
  /\ \E t \in Tenants, p \in pages, size \in sizes :
       req' = [req EXCEPT ![s] =
         [IdleReq EXCEPT !.op = "list", !.pc = "l_filter", !.tenantId = t,
            !.filter = [page |-> p, pageSize |-> size], !.pre = Store]]
  /\ StoreUnchanged

\* Any page of any size, for the list requests checked alone.
ListCall(s) == ListCallOf(s, 1..MaxPage, 1..MaxPageSize)

\* The first two pages of one row each, for the list requests that run
\* among the other operations, whose tables hold few estimates.
ListAmongCall(s) == ListCallOf(s, {1, 2}, {1})

\* await this.dynamicListService.dynamicList(tenantId, SaleEstimate, filter)
ListFilter(s) ==
  /\ req[s].pc = "l_filter"
  /\ Goto(s, "l_query")
  /\ StoreUnchanged

\* Mutant of ListQuery: the query runs over the tables of every tenant.
ListQueryAllTenants(s) ==
  LET r == req[s]
      got == estimatesList(UNION {docs[t] : t \in Tenants},
                           UNION {entries[t] : t \in Tenants}, r.filter)
  IN
  /\ r.pc = "l_query"
  /\ req' = [req EXCEPT ![s].pc = "done", ![s].result = "ok",
                        ![s].list = got.results,
                        ![s].pagination = got.pagination]
  /\ StoreUnchanged

\* await SaleEstimate.query().onBuild(...).pagination(page - 1, pageSize)
ListQuery(s) ==
  LET r == req[s]
      got == estimatesList(docs[r.tenantId], entries[r.tenantId], r.filter)
  IN
  /\ r.pc = "l_query"
  /\ req' = [req EXCEPT ![s].pc = "done", ![s].result = "ok",
                        ![s].list = got.results,
                        ![s].pagination = got.pagination]
  /\ StoreUnchanged

\* The caller has the outcome of the request; the slot is free again.
Return(s) ==
  /\ req[s].pc = "done"
  /\ req' = [req EXCEPT ![s] = IdleReq]
  /\ StoreUnchanged

\* The specification: one request at a time, in slot "a".
Next ==
  \E s \in {"a"} :
    \/ CreateCall(s) /\ UNCHANGED bills
    \/ CreateValidateNumber(s) /\ UNCHANGED bills
    \/ CreateGetCustomer(s) /\ UNCHANGED bills
    \/ CreateValidateItems(s) /\ UNCHANGED bills
    \/ CreateValidateSellable(s) /\ UNCHANGED bills
    \/ CreateWrite(s) /\ UNCHANGED bills
    \/ CreateDispatch(s) /\ UNCHANGED bills
    \/ EditCall(s) /\ UNCHANGED bills
    \/ EditLoad(s) /\ UNCHANGED bills
    \/ EditValidateNumber(s) /\ UNCHANGED bills
    \/ EditGetCustomer(s) /\ UNCHANGED bills
    \/ EditValidateEntries(s) /\ UNCHANGED bills
    \/ EditValidateItems(s) /\ UNCHANGED bills
    \/ EditValidateSellable(s) /\ UNCHANGED bills
    \/ EditWrite(s) /\ UNCHANGED bills
    \/ EditDispatch(s) /\ UNCHANGED bills
    \/ DeleteCall(s) /\ UNCHANGED bills
    \/ DeleteLoad(s) /\ UNCHANGED bills
    \/ DeleteEntries(s) /\ UNCHANGED bills
    \/ DeleteDocument(s) /\ UNCHANGED bills
    \/ DeleteDispatch(s) /\ UNCHANGED bills
    \/ GetCall(s) /\ UNCHANGED bills
    \/ GetLoad(s) /\ UNCHANGED bills
    \/ ListAmongCall(s) /\ UNCHANGED bills
    \/ ListFilter(s) /\ UNCHANGED bills
    \/ ListQuery(s) /\ UNCHANGED bills
    \/ Return(s) /\ UNCHANGED bills

Spec == Init /\ [][Next]_vars

\* Requests that run at the same time: creates and edits of tenant 1, of
\* estimates without entries, in both slots; every await of a request is a
\* step at which the request of the other slot may run.
ConcTenants == {1}
ConcDTOs ==
  {[estimateNumber |-> n, customerId |-> 1, entries |-> <<>>]
     : n \in EstimateNumbers}
ConcCreateCall(s) == CreateCallOf(s, ConcTenants, ConcDTOs)
ConcEditCall(s) == EditCallOf(s, ConcTenants, ConcDTOs)

NextConc ==
  \E s \in Slots :
    \/ ConcCreateCall(s) /\ UNCHANGED bills
    \/ CreateValidateNumber(s) /\ UNCHANGED bills
    \/ CreateGetCustomer(s) /\ UNCHANGED bills
    \/ CreateValidateItems(s) /\ UNCHANGED bills
    \/ CreateValidateSellable(s) /\ UNCHANGED bills
    \/ CreateWrite(s) /\ UNCHANGED bills
    \/ CreateDispatch(s) /\ UNCHANGED bills
    \/ ConcEditCall(s) /\ UNCHANGED bills
    \/ EditLoad(s) /\ UNCHANGED bills
    \/ EditValidateNumber(s) /\ UNCHANGED bills
    \/ EditGetCustomer(s) /\ UNCHANGED bills
    \/ EditValidateEntries(s) /\ UNCHANGED bills
    \/ EditValidateItems(s) /\ UNCHANGED bills
    \/ EditValidateSellable(s) /\ UNCHANGED bills
    \/ EditWrite(s) /\ UNCHANGED bills
    \/ EditDispatch(s) /\ UNCHANGED bills
    \/ Return(s) /\ UNCHANGED bills

SpecConc == Init /\ [][NextConc]_vars

\* The web client's fetchBillsTable calls alone.
NextBills ==
  \/ FetchBillsCall
  \/ ApiResolves
  \/ ApiRejects
  \/ BillsReturn

SpecBills == Init /\ [][NextBills]_vars

\* The estimates a tenant stores under the ids of S.
ListTable(S) ==
  {[id |-> k, estimate_number |-> ToString(k), customer_id |-> 1, amount |-> 0]
     : k \in S}

\* Any estimates tables with ids in 1..MaxListDocs, their estimates without
\* entries.
InitList ==
  /\ docs \in [Tenants -> {ListTable(S) : S \in SUBSET (1..MaxListDocs)}]
  /\ entries = [t \in Tenants |-> {}]
  /\ nextDocId = [t \in Tenants |-> MaxListDocs + 1]
  /\ nextEntryId = [t \in Tenants |-> 1]
  /\ req = [s \in Slots |-> IdleReq]
  /\ bills = IdleBills

\* The list requests alone, one at a time.
NextList ==
  \E s \in {"a"} :
    \/ ListCall(s) /\ UNCHANGED bills
    \/ ListFilter(s) /\ UNCHANGED bills
    \/ ListQuery(s) /\ UNCHANGED bills
    \/ Return(s) /\ UNCHANGED bills

SpecList == InitList /\ [][NextList]_vars

\* ================================================================ claims
Done(r) == r.pc = "done"
GateErrors ==
  {SALE_ESTIMATE_NUMBER_EXISTANCE, CUSTOMER_NOT_FOUND, ENTRIES_IDS_NOT_FOUND,
   ITEMS_IDS_NOT_EXISTS, NOT_SELLABLE_ITEMS}

\* The estimate request r is about, and its entries, as stored before the call.
PreDoc(r) == {d \in r.pre.docs[r.tenantId] : d.id = r.estimateId}
PreEntries(r) ==
  {e \in r.pre.entries[r.tenantId] :
     e.reference_id = r.estimateId /\ e.reference_type = "SaleEstimate"}
GivenIds(r) == {e.id : e \in Range(r.dto.entries)} \ {0}

\* The gates of the specification, on the state the call found.
NumberTaken(r) ==
  \E d \in r.pre.docs[r.tenantId] :
    d.estimate_number = r.dto.estimateNumber /\ d.id # r.estimateId
CustomerMissing(r) == r.dto.customerId \notin Customers(r.tenantId)
ItemMissing(r) == \E e \in Range(r.dto.entries) : e.itemId \notin Items(r.tenantId)
ItemNotSellable(r) ==
  \E e \in Range(r.dto.entries) : e.itemId \notin Sellable(r.tenantId)
EntryNotOwned(r) ==
  r.op = "edit" /\ ~(GivenIds(r) \subseteq {e.id : e \in PreEntries(r)})
SomeGateFails(r) ==
  \/ NumberTaken(r) \/ CustomerMissing(r) \/ ItemMissing(r)
  \/ ItemNotSellable(r) \/ EntryNotOwned(r)

\* C1: deleteEstimate is atomic in its two writes: in no state is the
\* document still stored while that delete has already removed its entries,
\* nor the document removed while its entries are still stored.
C1_DeleteAtomic ==
  \A s \in Slots :
    LET r == req[s] IN
    r.op = "delete" =>
      /\ r.removed # {} => findById(docs[r.tenantId], r.estimateId) = {}
      /\ (PreDoc(r) # {} /\ findById(docs[r.tenantId], r.estimateId) = {})
           => EstimateEntries(entries[r.tenantId], r.estimateId) = {}

\* C2: in createEstimate and editEstimate every gate is evaluated before the
\* first write: a request whose DTO fails a gate ends with a gate error, the
\* number, customer, item and sellable errors are returned only for a DTO
\* that fails that gate, and a request that ends with a gate error has left
\* the stored documents and entries exactly as the call found them.
C2_GatesBeforeWrite ==
  \A s \in Slots :
    LET r == req[s] IN
    (r.op \in {"create", "edit"} /\ Done(r)) =>
      /\ r.result \in GateErrors => Store = r.pre
      /\ (SomeGateFails(r) /\ (r.op = "edit" => PreDoc(r) # {}))
           => r.result \in GateErrors
      /\ (r.op = "create" /\ ItemMissing(r)) => docs = r.pre.docs
      /\ r.result = SALE_ESTIMATE_NUMBER_EXISTANCE => NumberTaken(r)
      /\ r.result = CUSTOMER_NOT_FOUND => CustomerMissing(r)
      /\ r.result = ITEMS_IDS_NOT_EXISTS => ItemMissing(r)
      /\ r.result = NOT_SELLABLE_ITEMS => ItemNotSellable(r)

\* C2 witness: a create naming a nonexistent item has failed the item gate.
C2_Witness ==
  \E s \in Slots :
    /\ req[s].op = "create" /\ Done(req[s])
    /\ ItemMissing(req[s])
    /\ req[s].result = ITEMS_IDS_NOT_EXISTS

\* C3: a request that reached the dispatch of its lifecycle event (its write
\* is committed) completes successfully whether or not the dispatch failed.
C3_DispatchFailureTolerated ==
  \A s \in Slots :
    LET r == req[s] IN
    (Done(r) /\ r.event # NoEvent) => r.result = "ok"

\* C4: a createEstimate whose number is held by a document of the same
\* tenant fails with SALE_ESTIMATE_NUMBER_EXISTANCE and persists nothing; one
\* whose number is free in its tenant (whoever holds it elsewhere) and that
\* passes the other gates persists its document and returns it, unless the
\* event dispatch throws.
C4_NumberUniquePerTenant ==
  \A s \in Slots :
    LET r == req[s]
        t == r.tenantId
    IN
    (r.op = "create" /\ Done(r)) =>
      /\ NumberTaken(r) =>
           /\ r.result = SALE_ESTIMATE_NUMBER_EXISTANCE
           /\ Store = r.pre
      /\ ~SomeGateFails(r) =>
           /\ r.result \in {"ok", DISPATCH_ERROR}
           /\ \E d \in docs[t] \ r.pre.docs[t] :
                d.estimate_number = r.dto.estimateNumber

\* C4 witness: a second create of a number fails in a tenant while another
\* tenant holds a document of the same number.
C4_Witness ==
  \E s \in Slots :
    LET r == req[s] IN
    /\ r.op = "create" /\ Done(r)
    /\ r.result = SALE_ESTIMATE_NUMBER_EXISTANCE
    /\ \E t \in Tenants \ {r.tenantId} :
         \E d \in docs[t] : d.estimate_number = r.dto.estimateNumber

\* C5: an edit of a stored document to its own current number is never
\* rejected with SALE_ESTIMATE_NUMBER_EXISTANCE; an edit to a number held by
\* another document of the tenant is.
C5_SelfExclusion ==
  \A s \in Slots :
    LET r == req[s] IN
    (r.op = "edit" /\ Done(r) /\ PreDoc(r) # {}) =>
      /\ (\A d \in PreDoc(r) : d.estimate_number = r.dto.estimateNumber)
           => r.result # SALE_ESTIMATE_NUMBER_EXISTANCE
      /\ NumberTaken(r) => r.result = SALE_ESTIMATE_NUMBER_EXISTANCE

\* C5 witness: an edit that keeps the document's number has succeeded.
C5_Witness ==
  \E s \in Slots :
    LET r == req[s] IN
    /\ r.op = "edit" /\ Done(r) /\ r.result = "ok"
    /\ \E d \in PreDoc(r) : d.estimate_number = r.dto.estimateNumber

\* C6: after a successful deleteEstimate no entry of the document is stored
\* and getEstimate of its id fails with SALE_ESTIMATE_NOT_FOUND; a getEstimate
\* of an id that is not stored ends with SALE_ESTIMATE_NOT_FOUND.
C6_DeleteRemovesAll ==
  \A s \in Slots :
    LET r == req[s]
        t == r.tenantId
    IN
    /\ (r.op = "delete" /\ Done(r) /\ r.result = "ok") =>
         /\ ~ \E e \in entries[t] :
                e.reference_id = r.estimateId /\ e.reference_type = "SaleEstimate"
         /\ getEstimate(docs[t], entries[t], r.estimateId).error
              = SALE_ESTIMATE_NOT_FOUND
    /\ (r.op = "get" /\ Done(r) /\ PreDoc(r) = {}) =>
         r.result = SALE_ESTIMATE_NOT_FOUND

\* C6 witness: a successful delete of a document that had entries.
C6_Witness ==
  \E s \in Slots :
    LET r == req[s] IN
    r.op = "delete" /\ Done(r) /\ r.result = "ok" /\ PreEntries(r) # {}

\* The stored amounts of a set of entry rows, added up.
RECURSIVE SumOfRows(_)
SumOfRows(rows) ==
  IF rows = {} THEN 0
  ELSE LET e == CHOOSE x \in rows : TRUE
       IN e.quantity * e.rate + SumOfRows(rows \ {e})

\* The entry rows of document id that an entries list describes, given the
\* ids f of the rows.
RowsOf(es, id, f) ==
  {[id |-> f[i], reference_id |-> id, reference_type |-> "SaleEstimate",
    item_id |-> es[i].itemId, quantity |-> es[i].quantity, rate |-> es[i].rate]
     : i \in 1..Len(es)}

\* C7: editEstimate replaces the entries of the document: after a successful
\* edit the stored entries of the document are exactly the DTO's entries (an
\* entry given with an id keeps it), and no entry it had before whose id the
\* DTO omits is stored any more.
C7_EditReplacesEntries ==
  \A s \in Slots :
    LET r == req[s]
        t == r.tenantId
        es == r.dto.entries
    IN
    (r.op = "edit" /\ Done(r) /\ r.result = "ok") =>
      /\ \E f \in [1..Len(es) -> 1..MaxEntryId] :
           /\ \A i, j \in 1..Len(es) : f[i] = f[j] => i = j
           /\ \A i \in 1..Len(es) : es[i].id # 0 => f[i] = es[i].id
           /\ {e \in entries[t] : e.reference_id = r.estimateId
                                   /\ e.reference_type = "SaleEstimate"}
                = RowsOf(es, r.estimateId, f)
      /\ \A old \in PreEntries(r) :
           old.id \notin GivenIds(r) => ~ \E e \in entries[t] : e.id = old.id

\* C7 witness: a successful edit has deleted an entry the document had.
C7_Witness ==
  \E s \in Slots :
    LET r == req[s] IN
    /\ r.op = "edit" /\ Done(r) /\ r.result = "ok"
    /\ r.dto.entries # <<>>
    /\ \E old \in PreEntries(r) :
         ~ \E e \in entries[r.tenantId] : e.id = old.id

\* C8: after a successful createEstimate or editEstimate the stored
\* document's amount is the sum of quantity * rate over the entries stored
\* for it by that write; the totals the client sent are in neither.
C8_AmountIsSumOfEntries ==
  \A s \in Slots :
    LET r == req[s]
        t == r.tenantId
    IN
    (r.op \in {"create", "edit"} /\ Done(r) /\ r.result = "ok") =>
      /\ r.returned # {}
      /\ \A g \in r.returned :
           /\ g.doc \in docs[t]
           /\ g.entries = {e \in entries[t] : e.reference_id = g.doc.id
                                               /\ e.reference_type = "SaleEstimate"}
           /\ Cardinality(g.entries) = Len(r.dto.entries)
           /\ g.doc.amount = SumOfRows(g.entries)
           /\ \A e \in g.entries : DOMAIN e =
                {"id", "reference_id", "reference_type", "item_id",
                 "quantity", "rate"}

\* C8 witness: a create of two entries, whose client totals differ from the
\* computed amounts, has succeeded.
C8_Witness ==
  \E s \in Slots :
    LET r == req[s] IN
    /\ r.op = "create" /\ Done(r) /\ r.result = "ok"
    /\ Len(r.dto.entries) = 2
    /\ \A e \in Range(r.dto.entries) : e.total # e.quantity * e.rate

\* C9: every lifecycle event carries the tenant id and the affected document:
\* Created the new document, Edited the previous and the new one, Deleted
\* the document as it was before the delete.
C9_EventsCarryDocument ==
  \A s \in Slots :
    LET r == req[s] IN
    \A ev \in r.event :
      \E p \in ev.payload :
        /\ p.tenantId = r.tenantId
        /\ r.op = "create" =>
             (ev.name = "onCreated" /\ p.saleEstimate # {}
              /\ p.saleEstimate \subseteq docs[r.tenantId])
        /\ r.op = "edit" =>
             (ev.name = "onEdited" /\ p.saleEstimate # {}
              /\ p.saleEstimate \subseteq docs[r.tenantId]
              /\ p.oldSaleEstimate = PreDoc(r))
        /\ r.op = "delete" =>
             (ev.name = "onDeleted" /\ p.oldSaleEstimate = PreDoc(r)
              /\ PreDoc(r) # {})

\* C10: in editEstimate the entry-existence gate is scoped to the entries of
\* the edited document: an otherwise valid edit whose entry ids all belong to
\* the document passes the gate and is written, and an edit that reaches the
\* gate naming an entry id that does not belong is rejected with nothing
\* written.
C10_EntryGateScoped ==
  \A s \in Slots :
    LET r == req[s] IN
    (r.op = "edit" /\ Done(r) /\ PreDoc(r) # {}) =>
      /\ ~SomeGateFails(r) => r.result \in {"ok", DISPATCH_ERROR}
      /\ (EntryNotOwned(r) /\ ~NumberTaken(r) /\ ~CustomerMissing(r)) =>
           (r.result = ENTRIES_IDS_NOT_FOUND /\ Store = r.pre)


Failures ==
  GateErrors \cup {SALE_ESTIMATE_NOT_FOUND, STORAGE_ERROR, UPSERT_ERROR}

\* C11: a lifecycle event is dispatched only after the write of its
\* operation: no request has dispatched before its last step, a request that
\* has dispatched finds its write in the tables (the new document, the edited
\* document, the document gone), and a request that failed a gate, a
\* not-found check or a storage call has dispatched nothing.
C11_EventAfterWrite ==
  \A s \in Slots :
    LET r == req[s]
        t == r.tenantId
    IN
    /\ ~Done(r) => r.event = NoEvent
    /\ r.event # NoEvent =>
         /\ r.op \in {"create", "edit", "delete"}
         /\ r.result \in {"ok", DISPATCH_ERROR}
         /\ r.op = "create" =>
              \E d \in docs[t] :
                /\ d.id \notin {x.id : x \in r.pre.docs[t]}
                /\ d.estimate_number = r.dto.estimateNumber
         /\ r.op = "edit" =>
              /\ PreDoc(r) # {}
              /\ \E d \in docs[t] :
                   d.id = r.estimateId /\ d.estimate_number = r.dto.estimateNumber
         /\ r.op = "delete" =>
              /\ PreDoc(r) # {}
              /\ ~ \E d \in docs[t] : d.id = r.estimateId
    /\ (Done(r) /\ r.result \in Failures) => r.event = NoEvent

\* C11 witness: an edit that changed the number has dispatched its event.
C11_Witness ==
  \E s \in Slots :
    LET r == req[s] IN
    /\ r.op = "edit" /\ Done(r) /\ r.result = "ok" /\ r.event # NoEvent
    /\ \E d \in PreDoc(r) : d.estimate_number # r.dto.estimateNumber


\* C15: editEstimate, deleteEstimate and getEstimate of an id that is not a
\* stored estimate of the tenant end with SALE_ESTIMATE_NOT_FOUND, having
\* written nothing and dispatched nothing; getEstimate never writes or
\* dispatches, and finds every stored estimate.
C15_NotFoundWritesNothing ==
  \A s \in Slots :
    LET r == req[s] IN
    /\ (r.op \in {"edit", "delete", "get"} /\ PreDoc(r) = {}) =>
         /\ Store = r.pre
         /\ r.event = NoEvent
         /\ Done(r) => r.result = SALE_ESTIMATE_NOT_FOUND
    /\ r.op = "get" =>
         /\ Store = r.pre
         /\ r.event = NoEvent
         /\ (Done(r) /\ PreDoc(r) # {}) => r.result = "ok"

\* C15 witness: a delete of an id that is not stored in its tenant, though
\* another tenant stores that id, has ended with SALE_ESTIMATE_NOT_FOUND.
C15_Witness ==
  \E s \in Slots :
    LET r == req[s] IN
    /\ r.op = "delete" /\ Done(r) /\ r.result = SALE_ESTIMATE_NOT_FOUND
    /\ \E t \in Tenants \ {r.tenantId} : \E d \in docs[t] : d.id = r.estimateId

\* C16: no orphaned entries: every stored entry of type 'SaleEstimate'
\* refers to an estimate stored in the same tenant.
C16_NoOrphanedEntries ==
  \A t \in Tenants :
    \A e \in entries[t] :
      e.reference_type = "SaleEstimate" =>
        \E d \in docs[t] : d.id = e.reference_id

\* C16 witness: an estimate with entries has been deleted while another
\* estimate of the tenant keeps its entries.
C16_Witness ==
  \E s \in Slots :
    LET r == req[s] IN
    /\ r.op = "delete" /\ Done(r) /\ r.result = "ok" /\ PreEntries(r) # {}
    /\ \E e \in entries[r.tenantId] : e.reference_type = "SaleEstimate"

\* C17: createEstimate discards the ids of the DTO's entries: a create that
\* passes the gates is written whatever ids its entries carry, it leaves
\* every entry stored before it exactly as it was, and the entries it adds
\* are one per DTO entry, under ids no stored entry had, of type
\* 'SaleEstimate' and owned by the new estimate.
C17_CreateAssignsFreshIds ==
  \A s \in Slots :
    LET r == req[s]
        t == r.tenantId
        added == entries[t] \ r.pre.entries[t]
    IN
    (r.op = "create" /\ Done(r)) =>
      /\ ~SomeGateFails(r) => r.result \in {"ok", DISPATCH_ERROR}
      /\ r.pre.entries[t] \subseteq entries[t]
      /\ r.result \in {"ok", DISPATCH_ERROR} =>
           /\ Cardinality(added) = Len(r.dto.entries)
           /\ \A e \in added :
                /\ e.id \notin {x.id : x \in r.pre.entries[t]}
                /\ e.reference_type = "SaleEstimate"
                /\ e.reference_id \notin {d.id : d \in r.pre.docs[t]}
                /\ \E d \in docs[t] : d.id = e.reference_id

\* C17 witness: a create whose entry carries the id of a stored entry of
\* another estimate has succeeded.
C17_Witness ==
  \E s \in Slots :
    LET r == req[s] IN
    /\ r.op = "create" /\ Done(r) /\ r.result = "ok"
    /\ \E e \in Range(r.dto.entries) :
         \E x \in r.pre.entries[r.tenantId] :
           x.id = e.id /\ x.reference_type = "SaleEstimate"

\* C18: the gates of createEstimate fail fast in the order number, customer,
\* item existence, item sellability: a create ends with the error of the
\* first gate its DTO fails.
C18_CreateGatesInOrder ==
  \A s \in Slots :
    LET r == req[s]
        es == Range(r.dto.entries)
        missing == \E e \in es : e.itemId \notin Items(r.tenantId)
        unsellable ==
          \E e \in es : e.itemId \in Items(r.tenantId) \ Sellable(r.tenantId)
    IN
    (r.op = "create" /\ Done(r)) =>
      /\ NumberTaken(r) => r.result = SALE_ESTIMATE_NUMBER_EXISTANCE
      /\ (~NumberTaken(r) /\ CustomerMissing(r)) => r.result = CUSTOMER_NOT_FOUND
      /\ (~NumberTaken(r) /\ ~CustomerMissing(r) /\ missing)
           => r.result = ITEMS_IDS_NOT_EXISTS
      /\ (~NumberTaken(r) /\ ~CustomerMissing(r) /\ ~missing /\ unsellable)
           => r.result = NOT_SELLABLE_ITEMS

\* C18 witness: a create failing the customer, the item and the sellable
\* gate at once has ended with the customer error.
C18_Witness ==
  \E s \in Slots :
    LET r == req[s] IN
    /\ r.op = "create" /\ Done(r) /\ r.result = CUSTOMER_NOT_FOUND
    /\ \E e \in Range(r.dto.entries) : e.itemId \notin Items(r.tenantId)
    /\ \E e \in Range(r.dto.entries) :
         e.itemId \in Items(r.tenantId) \ Sellable(r.tenantId)


\* The pages 1..n of a table, one after the other.
RECURSIVE PagesUpTo(_, _, _)
PagesUpTo(tbl, size, n) ==
  IF n = 0
  THEN <<>>
  ELSE PagesUpTo(tbl, size, n - 1)
         \o estimatesList(tbl, {}, [page |-> n, pageSize |-> size]).results

\* C13: estimatesList of page p and pageSize s returns exactly the estimates
\* at the zero-based positions (p-1)*s .. p*s-1 of the tenant's estimates
\* in id order, reports page p, and the pages 1, 2, ... one after the other
\* are the estimates in order, none twice and none skipped.
C13_PageTranslation ==
  \A s \in Slots :
    LET r == req[s]
        rows == SortedById(docs[r.tenantId])
        p == r.filter.page
        size == r.filter.pageSize
        first == (p - 1) * size
    IN
    (r.op = "list" /\ Done(r)) =>
      /\ Len(r.list) <= size
      /\ \A k \in 1..Len(rows) :
           IF k - 1 >= first /\ k - 1 <= p * size - 1
           THEN k - first <= Len(r.list) /\ r.list[k - first].doc = rows[k]
           ELSE \A j \in 1..Len(r.list) : r.list[j].doc # rows[k]
      /\ \A j \in 1..Len(r.list) : first + j <= Len(rows)
      /\ r.pagination = [total |-> Len(rows), page |-> p, pageSize |-> size]
      /\ \A n \in 0..MaxPage :
           LET all == PagesUpTo(docs[r.tenantId], size, n)
           IN /\ Len(all) = (IF n * size < Len(rows) THEN n * size ELSE Len(rows))
              /\ \A j \in 1..Len(all) : all[j].doc = rows[j]

\* C13 witness: page 2 of a table with a gap in its ids and rows left for
\* page 3 has been returned full.
C13_Witness ==
  \E s \in Slots :
    LET r == req[s]
        rows == SortedById(docs[r.tenantId])
    IN
    /\ r.op = "list" /\ Done(r) /\ r.filter.page = 2
    /\ Len(r.list) = r.filter.pageSize
    /\ Len(rows) > 2 * r.filter.pageSize
    /\ \E k \in 1..Len(rows) : rows[k].id # k


\* C14: tenant isolation: a request of tenant T leaves the estimates, the
\* entries and the id counters of every other tenant as they were when it
\* was called; what it returns are estimates and entries stored for T; and
\* its not-found and number checks look at T's estimates only.
C14_TenantIsolation ==
  \A s \in Slots :
    LET r == req[s]
        t == r.tenantId
    IN
    r.op # "none" =>
      /\ \A u \in Tenants \ {t} :
           /\ docs[u] = r.pre.docs[u]
           /\ entries[u] = r.pre.entries[u]
      /\ \A x \in r.returned :
           /\ x.doc \in docs[t] \cup r.pre.docs[t]
           /\ x.entries \subseteq entries[t] \cup r.pre.entries[t]
      /\ \A j \in 1..Len(r.list) :
           /\ r.list[j].doc \in docs[t]
           /\ r.list[j].entries \subseteq entries[t]
      /\ (r.op = "list" /\ Done(r)) =>
           r.pagination.total = Cardinality(docs[t])
      /\ (Done(r) /\ r.op \in {"edit", "delete", "get"}) =>
           (r.result = SALE_ESTIMATE_NOT_FOUND <=> PreDoc(r) = {})
      /\ (Done(r) /\ r.result = SALE_ESTIMATE_NUMBER_EXISTANCE) =>
           \E d \in r.pre.docs[t] : d.estimate_number = r.dto.estimateNumber

\* C14 witness: an estimate has been edited whose id another tenant stores
\* too.
C14_Witness ==
  \E s \in Slots :
    LET r == req[s] IN
    /\ r.op = "edit" /\ Done(r) /\ r.result = "ok"
    /\ docs[r.tenantId] # r.pre.docs[r.tenantId]
    /\ \E u \in Tenants \ {r.tenantId} : \E d \in docs[u] : d.id = r.estimateId


\* C12: in every state, whatever the interleaving of the create and edit
\* requests, no two estimates of a tenant hold the same estimate number.
C12_NumbersUnique ==
  \A t \in Tenants :
    \A d1 \in docs[t], d2 \in docs[t] :
      d1.estimate_number = d2.estimate_number => d1.id = d2.id


\* The loading flags dispatched so far, in order.
LoadingFlags ==
  SelectSeq(bills.dispatched, LAMBDA a : a.type = BILLS_TABLE_LOADING)

\* C19: once the promise of a fetchBillsTable call that dispatched
\* loading = true has settled, resolved or rejected, the last loading flag
\* dispatched is false: the table does not stay loading.
C19_LoadingCleared ==
  (bills.pc = "settled" /\ TableLoading(TRUE) \in Range(bills.dispatched)) =>
    LoadingFlags[Len(LoadingFlags)].payload.loading = FALSE

====
